---- MODULE Spec2Model ----
(***************************************************************************)
(* Model of the news fetch / normalize / cache / fallback pipeline.        *)
(*                                                                         *)
(*   profile = "app"    : src/public/app.js  (timer-driven refresh)        *)
(*   profile = "server" : src/server.js      (TTL-gated refresh on /news;  *)
(*                        src/unnamed/part_000 and part_001 carry the same *)
(*                        /news handler, cache variables and parser)       *)
(*   profile = "sort"   : the ordering step of app.js applied to one list  *)
(*                        (SpecSort)                                       *)
(*                                                                         *)
(* Spec is the two programs with clients that only read; SpecCaller is     *)
(* app.js with a client that also changes the lists getCachedNews handed   *)
(* to it.                                                                  *)
(*                                                                         *)
(* An async function is cut at its awaits: the code between two awaits     *)
(* runs to completion on the event loop and is one action.  The two awaits *)
(* of one HTTP exchange (fetch, then resp.text()) touch no shared state    *)
(* in between and are one suspension point here.                          *)
(*                                                                         *)
(* Text is a sequence of one-character strings, so that trim, the          *)
(* startsWith("<") test, tag stripping and length tests are computed.      *)
(* A JavaScript value is a tagged record [t |-> kind, ...].                *)
(***************************************************************************)
EXTENDS Integers, Sequences, FiniteSets, TLC

VARIABLES
    profile,      \* which program runs: "app" or "server"
    now,          \* the wall clock, in ms
    \* ---- app.js
    cached,       \* app.js:17  { derivative, general, lastUpdated }
    booted,       \* startNewsUpdater has run
    nextTick,     \* due time of the next setInterval callback
    started,      \* number of refreshNewsNow invocations so far
    cycles,       \* the refreshNewsNow invocations suspended at an await
    last,         \* history: the most recently finished refreshNewsNow
    lastRead,     \* history: what the latest getCachedNews call returned, kept
                  \* until a refreshNewsNow invocation replaces the snapshot
    \* ---- server.js
    cachedNews,   \* server.js:15
    lastFetched,  \* server.js:16
    arrived,      \* number of /news requests so far
    reqs,         \* the /news handlers suspended at `await Promise.all`
    lastResp,     \* history: the latest /news request answered, with the cache
                  \* at its arrival (before), just before its answer (pre) and after
    \* ---- both
    cachedBy,     \* history: which refresh wrote each part of the cache
    \* ---- the ordering step of app.js on its own (profile = "sort")
    sortArg,      \* app.js:146  the list given to sortByDateDesc (its arr)
    ordered       \* app.js:152  what sortByDateDesc and .slice(0, 4) made of it

vars == <<profile, now, cached, booted, nextTick, started, cycles, last,
          lastRead, cachedNews, lastFetched, arrived, reqs, lastResp, cachedBy,
          sortArg, ordered>>

appVars == <<cached, booted, nextTick, started, cycles, last, lastRead>>
serverVars == <<cachedNews, lastFetched, arrived, reqs, lastResp>>
sortVars == <<sortArg, ordered>>

----------------------------------------------------------------------------
(* Bounds of the model *)

\* /news requests explored
MaxRequests == 2
\* clock steps explored; with StepsPerPeriod they fix how many interval ticks
\* fall inside the explored time
MaxSteps == 2
\* clock steps per period (refresh interval, resp. cache TTL)
StepsPerPeriod == 2
\* longest list given to the ordering step on its own
MaxLen == 5
\* the days on which its records are dated
MaxDay == 3

----------------------------------------------------------------------------
(* JavaScript values *)

Undefined == [t |-> "undefined"]
Null == [t |-> "null"]
Str(s) == [t |-> "str", s |-> s]
Num(n) == [t |-> "num", n |-> n]
Arr(a) == [t |-> "arr", a |-> a]
Obj(o) == [t |-> "obj", o |-> o]

\* ToBoolean
Truthy(v) ==
    CASE v.t = "undefined" -> FALSE
      [] v.t = "null" -> FALSE
      [] v.t = "str" -> Len(v.s) > 0
      [] v.t = "num" -> v.n # 0
      [] OTHER -> TRUE

\* a || b || ... || dflt : the first truthy value of vs, else dflt
RECURSIVE FirstTruthy(_, _)
FirstTruthy(vs, dflt) ==
    IF vs = <<>> THEN dflt
    ELSE IF Truthy(Head(vs)) THEN Head(vs)
    ELSE FirstTruthy(Tail(vs), dflt)

\* item.key for a value that is neither null nor undefined
Get(v, key) ==
    IF v.t = "obj" /\ key \in DOMAIN v.o THEN v.o[key] ELSE Undefined

\* obj?.key
OptGet(v, key) ==
    IF v.t \in {"null", "undefined"} THEN Undefined ELSE Get(v, key)

WhiteSpace == {" ", "\n"}

RECURSIVE TrimLeft(_)
TrimLeft(s) ==
    IF s # <<>> /\ Head(s) \in WhiteSpace THEN TrimLeft(Tail(s)) ELSE s

RECURSIVE TrimRight(_)
TrimRight(s) ==
    IF s # <<>> /\ s[Len(s)] \in WhiteSpace
    THEN TrimRight(SubSeq(s, 1, Len(s) - 1)) ELSE s

\* String.prototype.trim
Trim(s) == TrimRight(TrimLeft(s))

Digits == <<"0", "1", "2", "3", "4", "5", "6", "7", "8", "9">>

Digit(n) == Digits[n + 1]

\* decimal digits of a natural number
RECURSIVE NatToText(_)
NatToText(n) ==
    IF n < 10 THEN <<Digit(n)>> ELSE NatToText(n \div 10) \o <<Digit(n % 10)>>

\* String(v) for the values a JSON document can hold
StringOf(v) ==
    CASE v.t = "str" -> v.s
      [] v.t = "num" -> IF v.n < 0 THEN <<"-">> \o NatToText(-v.n) ELSE NatToText(v.n)
      [] v.t = "null" -> <<"n", "u", "l", "l">>
      [] v.t = "undefined" -> <<"u", "n", "d", "e", "f", "i", "n", "e", "d">>
      [] v.t = "arr" -> <<>>
      [] OTHER -> <<"[", "o", "b", "j", "e", "c", "t", " ", "O", "b", "j", "e", "c", "t", "]">>

----------------------------------------------------------------------------
(* Dates.  A number is a time in ms since the epoch; the clock and the     *)
(* sample dates stay inside January 1970, UTC.  The sample strings are not *)
(* dates, so new Date(string) is an Invalid Date.                          *)

NaN == [t |-> "NaN"]

\* new Date(v).getTime()
DateValue(v) ==
    CASE v.t = "num" -> Num(v.n)
      [] v.t = "null" -> Num(0)
      [] OTHER -> NaN

\* String(n).padStart(2, "0")
pad(n) == IF n < 10 THEN <<"0">> \o NatToText(n) ELSE NatToText(n)

MsPerMinute == 60 * 1000
MsPerHour == 60 * MsPerMinute
MsPerDay == 24 * MsPerHour

\* app.js:24  DD-MM-YYYY HH:MM
formatDateToDDMMYYYY_HHMM(d) ==
    IF ~Truthy(d) THEN <<>>
    ELSE LET dt == DateValue(d) IN
         IF dt = NaN THEN <<>>
         ELSE LET day == pad(1 + dt.n \div MsPerDay)
                  month == pad(0 + 1)
                  year == <<"1", "9", "7", "0">>
                  hours == pad((dt.n \div MsPerHour) % 24)
                  mins == pad((dt.n \div MsPerMinute) % 60)
              IN day \o <<"-">> \o month \o <<"-">> \o year \o <<" ">>
                     \o hours \o <<":">> \o mins

\* String(n).padStart(3, "0")
pad3(n) == IF n < 100 THEN <<"0">> \o pad(n) ELSE NatToText(n)

\* new Date(ms).toISOString()   YYYY-MM-DDTHH:MM:SS.mmmZ
toISOString(ms) ==
    <<"1", "9", "7", "0", "-", "0", "1", "-">> \o pad(1 + ms \div MsPerDay)
        \o <<"T">> \o pad((ms \div MsPerHour) % 24)
        \o <<":">> \o pad((ms \div MsPerMinute) % 60)
        \o <<":">> \o pad((ms \div 1000) % 60)
        \o <<".">> \o pad3(ms % 1000) \o <<"Z">>

----------------------------------------------------------------------------
(* Results of code that may throw *)

Ok(v) == [threw |-> FALSE, val |-> v]
Throw == [threw |-> TRUE]

----------------------------------------------------------------------------
(* app.js: the structured source *)

\* A transport outcome is [net |-> "error"] (fetch or resp.text() rejects) or
\* [net |-> "ok", text |-> the body's characters, json |-> JSON.parse(text)],
\* json being Throw for a body that is not a JSON document.

\* app.js:38-60
fetchAcesphere(resp) ==
    IF resp.net = "error" THEN Throw
    ELSE LET text == Trim(resp.text) IN
         IF text # <<>> /\ Head(text) = "<" THEN Throw
         ELSE resp.json

ListAliases == <<"NewsList", "ListNewsBean", "newsList", "Data", "News">>
DateFields == <<"DateTime", "Date", "TimeStamp", "NewsDate", "CreatedOn", "NewsDateTime">>
HeadlineFields == <<"Title", "Headline", "NewsHeading", "Heading", "NewsTitle", "NewsDesc">>

\* app.js:96-109  the callback of list.map, for an item that is not null
NormalizeItem(item) ==
    LET dateVal == FirstTruthy([i \in 1..Len(DateFields) |-> Get(item, DateFields[i])], Null)
        headline == FirstTruthy([i \in 1..Len(HeadlineFields) |-> Get(item, HeadlineFields[i])],
                                Str(<<>>))
    IN [headline |-> Trim(StringOf(headline)),
        dateRaw |-> dateVal,
        date |-> formatDateToDDMMYYYY_HHMM(dateVal)]

\* a filter that lets every record through
HasHeadlineAlways(x) == Len(x.headline) >= 0

HasHeadline(x) == Len(x.headline) > 0

\* app.js:112  out.filter((x) => x.headline && x.headline.length > 0)
RECURSIVE FilterEmpties(_)
FilterEmpties(out) ==
    IF out = <<>> THEN <<>>
    ELSE IF HasHeadline(Head(out)) THEN <<Head(out)>> \o FilterEmpties(Tail(out))
    ELSE FilterEmpties(Tail(out))

\* app.js:91-113  reading a property of a null entry throws a TypeError
parseAcesphereList(obj) ==
    LET list == FirstTruthy([i \in 1..Len(ListAliases) |-> OptGet(obj, ListAliases[i])], obj)
    IN IF list.t # "arr" THEN Ok(<<>>)
       ELSE IF \E i \in 1..Len(list.a) : list.a[i].t \in {"null", "undefined"} THEN Throw
       ELSE Ok(FilterEmpties([i \in 1..Len(list.a) |-> NormalizeItem(list.a[i])]))

----------------------------------------------------------------------------
(* app.js: the markup fallback *)

\* index of the first ">" of s at or after i, 0 when there is none
RECURSIVE FindGt(_, _)
FindGt(s, i) ==
    IF i > Len(s) THEN 0 ELSE IF s[i] = ">" THEN i ELSE FindGt(s, i + 1)

\* text.replace(/<[^>]+>/g, "")
RECURSIVE StripTags(_)
StripTags(s) ==
    IF s = <<>> THEN <<>>
    ELSE IF Head(s) = "<"
         THEN LET j == FindGt(s, 2) IN
              IF j > 2 THEN StripTags(SubSeq(s, j + 1, Len(s)))
              ELSE <<Head(s)>> \o StripTags(Tail(s))
         ELSE <<Head(s)>> \o StripTags(Tail(s))

MinHeadlineLength == 5
MaxHeadlines == 10

\* app.js:75-82  the loop over the anchors' inner texts m[1]
RECURSIVE CollectHeadlines(_, _)
CollectHeadlines(matches, headlines) ==
    IF matches = <<>> THEN headlines
    ELSE LET text == Trim(StripTags(Head(matches)))
             pushed == IF Len(text) > 0 /\ Len(text) > MinHeadlineLength
                       THEN Append(headlines, [headline |-> text, date |-> Null])
                       ELSE headlines
         IN IF Len(pushed) >= MaxHeadlines THEN pushed
            ELSE CollectHeadlines(Tail(matches), pushed)

\* app.js:63-88  resp.anchors: the inner texts matched by the anchor pattern,
\* in document order.  A failure is caught inside and yields [].
fetchNirmalbangHeadlines(resp) ==
    IF resp.net = "error" THEN <<>>
    ELSE CollectHeadlines(resp.anchors, <<>>)

\* app.js:137-141
FallbackItems(nb) ==
    [i \in 1..Len(nb) |->
        [headline |-> nb[i].headline,
         dateRaw |-> IF Truthy(nb[i].date) THEN nb[i].date ELSE Null,
         date |-> IF Truthy(nb[i].date) THEN formatDateToDDMMYYYY_HHMM(nb[i].date) ELSE <<>>]]

----------------------------------------------------------------------------
(* app.js: ordering and caps *)

HasDate(r) == Truthy(r.dateRaw)

\* app.js:147  arr.filter((r) => r.dateRaw)
RECURSIVE WithDate(_)
WithDate(arr) ==
    IF arr = <<>> THEN <<>>
    ELSE IF HasDate(Head(arr)) THEN <<Head(arr)>> \o WithDate(Tail(arr))
    ELSE WithDate(Tail(arr))

\* app.js:148  arr.filter((r) => !r.dateRaw)
RECURSIVE WithoutDate(_)
WithoutDate(arr) ==
    IF arr = <<>> THEN <<>>
    ELSE IF ~HasDate(Head(arr)) THEN <<Head(arr)>> \o WithoutDate(Tail(arr))
    ELSE WithoutDate(Tail(arr))

\* a comparator with its operands swapped: oldest first
BeforeAscending(b, a) == DateValue(b.dateRaw).n < DateValue(a.dateRaw).n

\* the comparator (a, b) => new Date(b.dateRaw) - new Date(a.dateRaw) puts b
\* before a exactly when its result is positive
Before(b, a) == DateValue(b.dateRaw).n > DateValue(a.dateRaw).n

\* insert r into the sorted list s behind every element it does not precede
RECURSIVE InsertSorted(_, _)
InsertSorted(s, r) ==
    IF s = <<>> THEN <<r>>
    ELSE IF Before(r, Head(s)) THEN <<r>> \o s
    ELSE <<Head(s)>> \o InsertSorted(Tail(s), r)

\* Array.prototype.sort with a consistent comparator: stable
RECURSIVE StableSort(_)
StableSort(arr) ==
    IF arr = <<>> THEN <<>>
    ELSE InsertSorted(StableSort(SubSeq(arr, 1, Len(arr) - 1)), arr[Len(arr)])

Reorderings(arr) ==
    {[i \in 1..Len(arr) |-> arr[p[i]]] :
        p \in {q \in [1..Len(arr) -> 1..Len(arr)] :
                  \A i, j \in 1..Len(arr) : q[i] = q[j] => i = j}}

\* the undated records put in front
sortByDateDescUndatedFirst(list) == {WithoutDate(list) \o StableSort(WithDate(list))}

\* app.js:146-150  the lists sortByDateDesc may return.  With an Invalid Date
\* among the dated records the comparator yields NaN, it is not a consistent
\* comparator and the order sort leaves is implementation-defined.
sortByDateDesc(arr) ==
    LET withDate == WithDate(arr)
        withoutDate == WithoutDate(arr)
        sorted == IF \A i \in 1..Len(withDate) : DateValue(withDate[i].dateRaw) # NaN
                  THEN {StableSort(withDate)}
                  ELSE Reorderings(withDate)
    IN {s \o withoutDate : s \in sorted}

\* Array.prototype.slice(0, n)
Slice(arr, n) == SubSeq(arr, 1, IF Len(arr) < n THEN Len(arr) ELSE n)

DerivativeCap == 4
GeneralCap == 6

\* app.js:156-163  the final { date, headline } records
Final(items) ==
    [i \in 1..Len(items) |->
        [date |-> IF Len(items[i].date) > 0 THEN items[i].date ELSE <<>>,
         headline |-> items[i].headline]]

----------------------------------------------------------------------------
(* Sample upstream responses *)

News(i) == <<"N", "e", "w", "s", " ">> \o pad(i)

JsonBody(first, v) == [net |-> "ok", text |-> <<first>>, json |-> Ok(v)]

TransportError == [net |-> "error"]

\* an HTML error page served with status 200, with leading white space
HtmlPage == [net |-> "ok", text |-> <<"\n", " ", "<", "h", "t", "m", "l", ">">>, json |-> Throw]

\* a body that is neither markup nor JSON
NotJson == [net |-> "ok", text |-> <<"o", "o", "p", "s">>, json |-> Throw]

\* [null, {"Title": "A", "DateTime": <day 2, 15:04>}]
NullEntry ==
    JsonBody("[", Arr(<<Null, Obj([Title |-> Str(<<"A">>), DateTime |-> Num(MsPerDay + 15 * MsPerHour + 4 * MsPerMinute)])>>))

\* the day of the i-th record of ManyDated: in no order, the first and the
\* fifth record on the same day
ManyDatedDay == <<3, 7, 1, 8, 3, 6, 4, 5>>

\* an array of eight records, every one dated, longer than either cap
ManyDated ==
    JsonBody("[", Arr([i \in 1..Len(ManyDatedDay) |->
        Obj([Headline |-> Str(News(i)), Date |-> Num(ManyDatedDay[i] * MsPerDay + 9 * MsPerHour)])]))

\* {"NewsList": 0, "Data": [{"Title": " "}, {"Title": "", "Heading": "C"},
\*           {"NewsTitle": "D", "CreatedOn": "n/a"}, {"NewsDesc": " E ", "TimeStamp": <day 1, 00:01>}]}
Mixed ==
    JsonBody("{", Obj([NewsList |-> Num(0), Data |-> Arr(<<
        Obj([Title |-> Str(<<" ">>)]),
        Obj([Title |-> Str(<<>>), Heading |-> Str(<<"C">>)]),
        Obj([NewsTitle |-> Str(<<"D">>), CreatedOn |-> Str(<<"n", "/", "a">>)]),
        Obj([NewsDesc |-> Str(<<" ", "E", " ">>), TimeStamp |-> Num(MsPerMinute)])>>)]))

\* {"Status": 0}: no list under any alias
NoList == JsonBody("{", Obj([Status |-> Num(0)]))

\* what the structured endpoint may answer, by name
StructuredResponse ==
    [TransportError |-> TransportError, HtmlPage |-> HtmlPage, NotJson |-> NotJson,
     NullEntry |-> NullEntry, ManyDated |-> ManyDated, Mixed |-> Mixed, NoList |-> NoList]

StructuredResponses == DOMAIN StructuredResponse

\* a page without anchors
NoAnchors == [net |-> "ok", anchors |-> <<>>]

\* anchors with nested tags, a short navigation label and a blank one
FewAnchors ==
    [net |-> "ok",
     anchors |-> << <<"<", "b", ">">> \o News(1) \o <<"<", "/", "b", ">">>,
                    <<"H", "o", "m", "e">>,
                    <<" ">>,
                    <<" ">> \o News(2) \o <<"\n">> >>]

\* twelve headlines: more than the fetcher keeps, more than the general cap
ManyAnchors == [net |-> "ok", anchors |-> [i \in 1..12 |-> News(i)]]

\* what the markup site may answer, by name
MarkupResponse ==
    [TransportError |-> TransportError, NoAnchors |-> NoAnchors,
     FewAnchors |-> FewAnchors, ManyAnchors |-> ManyAnchors]

MarkupResponses == DOMAIN MarkupResponse

----------------------------------------------------------------------------
(* app.js: refreshNewsNow *)

\* app.js:176  30 * 60 * 1000
INTERVAL == 30 * 60 * 1000

NoResp == "none"
NoCycle == [id |-> 0]
NoRead == [by |-> 0]

\* a catch block that keeps the list cached before instead of resetting it
DerivativeItemsStale(resp) ==
    LET derJson == fetchAcesphere(resp)
        kept == [i \in 1..Len(cached.derivative) |->
                    [headline |-> cached.derivative[i].headline,
                     dateRaw |-> Null,
                     date |-> cached.derivative[i].date]]
    IN IF derJson.threw THEN kept
       ELSE LET parsed == parseAcesphereList(derJson.val) IN
            IF parsed.threw THEN kept ELSE parsed.val

\* app.js:119-126  the derivative try/catch: any failure yields []
DerivativeItems(resp) ==
    LET derJson == fetchAcesphere(resp) IN
    IF derJson.threw THEN <<>>
    ELSE LET parsed == parseAcesphereList(derJson.val) IN
         IF parsed.threw THEN <<>> ELSE parsed.val

\* normalizing inside a try of its own: an exception there yields an empty
\* list and never reaches the fallback
GeneralStructuredSwallow(resp) ==
    LET genJson == fetchAcesphere(resp) IN
    IF genJson.threw THEN Throw
    ELSE LET parsed == parseAcesphereList(genJson.val) IN
         IF parsed.threw THEN Ok(<<>>) ELSE parsed

\* falling back whenever the structured list is empty, not only on failure
GeneralStructuredEmptyFails(resp) ==
    LET genJson == fetchAcesphere(resp) IN
    IF genJson.threw THEN Throw
    ELSE LET parsed == parseAcesphereList(genJson.val) IN
         IF parsed.threw \/ parsed.val = <<>> THEN Throw ELSE parsed

\* app.js:130-132  the general try block: Throw sends control to the catch
GeneralStructured(resp) ==
    LET genJson == fetchAcesphere(resp) IN
    IF genJson.threw THEN Throw ELSE parseAcesphereList(genJson.val)

\* the three strategies on each sample response
DerivativeOutcome == [r \in StructuredResponses |-> DerivativeItems(StructuredResponse[r])]
GeneralOutcome == [r \in StructuredResponses |-> GeneralStructured(StructuredResponse[r])]
MarkupOutcome ==
    [r \in MarkupResponses |-> FallbackItems(fetchNirmalbangHeadlines(MarkupResponse[r]))]

\* a write that replaces the general list and the timestamp only
ReplaceSnapshotHalf(c, derivativeItems, generalItems, t) ==
    [cached |-> [derivative |-> cached.derivative,
                 general |-> Final(generalItems),
                 lastUpdated |-> Str(toISOString(t))],
     cachedBy |-> [derivative |-> cachedBy.derivative, general |-> c, stamp |-> c]]

\* a write that is skipped when the cycle brought no record at all
ReplaceSnapshotOnSuccess(c, derivativeItems, generalItems, t) ==
    IF derivativeItems = <<>> /\ generalItems = <<>>
    THEN [cached |-> cached, cachedBy |-> cachedBy]
    ELSE [cached |-> [derivative |-> Final(derivativeItems),
                      general |-> Final(generalItems),
                      lastUpdated |-> Str(toISOString(t))],
          cachedBy |-> [derivative |-> c, general |-> c, stamp |-> c]]

\* app.js:156-164  the three assignments to the cache, with no await between
\* them, and who made them
ReplaceSnapshot(c, derivativeItems, generalItems, t) ==
    [cached |-> [derivative |-> Final(derivativeItems),
                 general |-> Final(generalItems),
                 lastUpdated |-> Str(toISOString(t))],
     cachedBy |-> [derivative |-> c, general |-> c, stamp |-> c]]

\* app.js:116-121  refreshNewsNow runs up to its first await: the derivative
\* request is on its way
NewCycle ==
    [pc |-> "derivative", derivativeItems |-> <<>>, before |-> cached,
     derResp |-> NoResp, genResp |-> NoResp,
     requests |-> [derivative |-> 1, general |-> 0, markup |-> 0]]

\* app.js:172-177
startNewsUpdater ==
    /\ profile = "app"
    /\ ~booted
    /\ booted' = TRUE
    /\ started' = started + 1
    /\ cycles' = (started + 1) :> NewCycle
    /\ nextTick' = now + INTERVAL
    /\ UNCHANGED <<profile, now, cached, last, lastRead, cachedBy>>
    /\ UNCHANGED serverVars
    /\ UNCHANGED sortVars

\* a timer callback behind an in-flight flag: a tick that finds a cycle still
\* waiting starts nothing
IntervalTickSkipsWhileBusy ==
    /\ profile = "app"
    /\ booted
    /\ now >= nextTick
    /\ nextTick' = nextTick + INTERVAL
    /\ IF cycles = <<>>
       THEN /\ started' = started + 1
            /\ cycles' = cycles @@ ((started + 1) :> NewCycle)
       ELSE UNCHANGED <<started, cycles>>
    /\ UNCHANGED <<profile, now, cached, booted, last, lastRead, cachedBy>>
    /\ UNCHANGED serverVars
    /\ UNCHANGED sortVars

\* app.js:176  the setInterval callback: refreshNewsNow, whatever earlier
\* invocations are doing
IntervalTick ==
    /\ profile = "app"
    /\ booted
    /\ now >= nextTick
    /\ nextTick' = nextTick + INTERVAL
    /\ started' = started + 1
    /\ cycles' = cycles @@ ((started + 1) :> NewCycle)
    /\ UNCHANGED <<profile, now, cached, booted, last, lastRead, cachedBy>>
    /\ UNCHANGED serverVars
    /\ UNCHANGED sortVars

\* app.js:121-131  the derivative exchange settles; the general request goes out
DerivativeSettled(c) ==
    /\ profile = "app"
    /\ c \in DOMAIN cycles
    /\ cycles[c].pc = "derivative"
    /\ \E resp \in StructuredResponses :
          cycles' = [cycles EXCEPT ![c] =
                        [@ EXCEPT !.pc = "general",
                                  !.derResp = resp,
                                  !.derivativeItems = DerivativeOutcome[resp],
                                  !.requests.general = @ + 1]]
    /\ UNCHANGED <<profile, now, cached, booted, nextTick, started, last, lastRead, cachedBy>>
    /\ UNCHANGED serverVars
    /\ UNCHANGED sortVars

\* app.js:144-165  order, cap, replace the cache; the invocation returns
Finish(c, generalItems, genResp, nbResp) ==
    \E d \in sortByDateDesc(cycles[c].derivativeItems), g \in sortByDateDesc(generalItems) :
        LET derivativeCapped == Slice(d, DerivativeCap)
            generalCapped == Slice(g, GeneralCap)
            w == ReplaceSnapshot(c, derivativeCapped, generalCapped, now)
        IN /\ cached' = w.cached
           /\ cachedBy' = w.cachedBy
           /\ last' = [id |-> c, at |-> now,
                       derResp |-> cycles[c].derResp, genResp |-> genResp, nbResp |-> nbResp,
                       requests |-> cycles[c].requests,
                       before |-> cycles[c].before]
           /\ lastRead' = NoRead
           /\ cycles' = [k \in DOMAIN cycles \ {c} |-> cycles[k]]

\* app.js:131-136 and 144-165  the structured general exchange settles: on
\* success the cycle finishes, on any failure the markup request goes out
GeneralSettled(c) ==
    /\ profile = "app"
    /\ c \in DOMAIN cycles
    /\ cycles[c].pc = "general"
    /\ \E resp \in StructuredResponses :
          LET general == GeneralOutcome[resp] IN
          IF general.threw
          THEN /\ cycles' = [cycles EXCEPT ![c] =
                                [@ EXCEPT !.pc = "markup",
                                          !.genResp = resp,
                                          !.requests.markup = @ + 1]]
               /\ UNCHANGED <<cached, last, lastRead, cachedBy>>
          ELSE Finish(c, general.val, resp, NoResp)
    /\ UNCHANGED <<profile, now, booted, nextTick, started>>
    /\ UNCHANGED serverVars
    /\ UNCHANGED sortVars

\* app.js:136-165  the markup exchange settles and the cycle finishes
MarkupSettled(c) ==
    /\ profile = "app"
    /\ c \in DOMAIN cycles
    /\ cycles[c].pc = "markup"
    /\ \E resp \in MarkupResponses :
          Finish(c, MarkupOutcome[resp],
                 cycles[c].genResp, resp)
    /\ UNCHANGED <<profile, now, booted, nextTick, started>>
    /\ UNCHANGED serverVars
    /\ UNCHANGED sortVars

\* history: what the previous getCachedNews call returned, if there was one
\* since the latest cache write
PreviousRead ==
    IF "returned" \in DOMAIN lastRead THEN lastRead.returned ELSE Null

\* an accessor that hands the lists over: it returns them and empties the cache
getCachedNewsDraining ==
    /\ profile = "app"
    /\ lastRead' = [returned |-> [derivative |-> cached.derivative,
                                  general |-> cached.general,
                                  lastUpdated |-> cached.lastUpdated],
                    by |-> cachedBy,
                    prev |-> PreviousRead]
    /\ lastRead' # lastRead
    /\ cached' = [cached EXCEPT !.derivative = <<>>, !.general = <<>>]
    /\ UNCHANGED <<profile, now, booted, nextTick, started, cycles, last, cachedBy>>
    /\ UNCHANGED serverVars
    /\ UNCHANGED sortVars

\* an accessor that refreshes on demand: every read starts a cycle
getCachedNewsRefreshing ==
    /\ profile = "app"
    /\ booted
    /\ lastRead' = [returned |-> [derivative |-> cached.derivative,
                                  general |-> cached.general,
                                  lastUpdated |-> cached.lastUpdated],
                    by |-> cachedBy,
                    prev |-> PreviousRead]
    /\ lastRead' # lastRead
    /\ started' = started + 1
    /\ cycles' = cycles @@ ((started + 1) :> NewCycle)
    /\ UNCHANGED <<profile, now, cached, booted, nextTick, last, cachedBy>>
    /\ UNCHANGED serverVars
    /\ UNCHANGED sortVars

\* app.js:180-186
getCachedNews ==
    /\ profile = "app"
    /\ lastRead' = [returned |-> [derivative |-> cached.derivative,
                                  general |-> cached.general,
                                  lastUpdated |-> cached.lastUpdated],
                    by |-> cachedBy,
                    prev |-> PreviousRead]
    /\ lastRead' # lastRead
    /\ UNCHANGED <<profile, now, cached, booted, nextTick, started, cycles, last, cachedBy>>
    /\ UNCHANGED serverVars
    /\ UNCHANGED sortVars

\* app.js:182-183  the object getCachedNews returns is new, its derivative and
\* general are the cache's own arrays.  A client that removes the elements of
\* one of them (list.length = 0) removes them from the array cached holds,
\* until refreshNewsNow assigns new arrays.
CallerMutates ==
    /\ profile = "app"
    /\ "returned" \in DOMAIN lastRead
    /\ \E k \in {"general", "derivative"} :
          /\ lastRead.returned[k] # <<>>
          /\ lastRead' = [lastRead EXCEPT
                             !.returned[k] = <<>>,
                             !.prev = IF @ = Null THEN Null ELSE [@ EXCEPT ![k] = <<>>]]
          /\ cached' = [cached EXCEPT ![k] = <<>>]
    /\ UNCHANGED <<profile, now, booted, nextTick, started, cycles, last, cachedBy>>
    /\ UNCHANGED serverVars
    /\ UNCHANGED sortVars

----------------------------------------------------------------------------
(* server.js: the markup source *)

\* s begins with the characters of pat
StartsWith(s, pat) == Len(s) >= Len(pat) /\ SubSeq(s, 1, Len(pat)) = pat

\* s.replace(/pat/g, rep) for a literal pat
RECURSIVE ReplaceAll(_, _, _)
ReplaceAll(s, pat, rep) ==
    IF s = <<>> THEN <<>>
    ELSE IF StartsWith(s, pat) THEN rep \o ReplaceAll(SubSeq(s, Len(pat) + 1, Len(s)), pat, rep)
    ELSE <<Head(s)>> \o ReplaceAll(Tail(s), pat, rep)

\* s.replace(pat, rep) for a string pat: the first occurrence only
RECURSIVE ReplaceFirst(_, _, _)
ReplaceFirst(s, pat, rep) ==
    IF s = <<>> THEN <<>>
    ELSE IF StartsWith(s, pat) THEN rep \o SubSeq(s, Len(pat) + 1, Len(s))
    ELSE <<Head(s)>> \o ReplaceFirst(Tail(s), pat, rep)

Nbsp == <<"&", "n", "b", "s", "p", ";">>
HrsIST == <<"H", "r", "s", " ", "I", "S", "T">>

\* server.js:19-21
formatDate(d) == Trim(ReplaceFirst(ReplaceAll(d, Nbsp, <<" ">>), HrsIST, <<>>))

\* server.js:24-36  html.containers: for each .GrNewsMainCont element, in
\* document order, the text of its .GrNewsHead and of its .GrNewsDate
RECURSIVE parseHtmlNews(_)
parseHtmlNews(containers) ==
    IF containers = <<>> THEN <<>>
    ELSE LET headline == Trim(Head(containers).head)
             date == Trim(Head(containers).date)
         IN (IF Len(headline) > 0 /\ Len(date) > 0
             THEN <<[date |-> formatDate(date), headline |-> headline]>>
             ELSE <<>>) \o parseHtmlNews(Tail(containers))

\* server.js:38-44  axios.get rejects on a transport error or a status
\* outside 2xx
fetchNews(resp) ==
    IF resp.net = "error" THEN Throw ELSE Ok(parseHtmlNews(resp.containers))

\* server.js:17
CACHE_TTL == 60 * 1000

NoContainers == [net |-> "ok", containers |-> <<>>]

\* two well-formed entries
TwoEntries ==
    [net |-> "ok",
     containers |-> <<[head |-> <<" ">> \o News(1), date |-> <<"0", "9", ":", "1", "5", " ">> \o HrsIST],
                      [head |-> News(2), date |-> <<"0", "9", ":", "0", "0">> \o Nbsp \o HrsIST]>>]

\* an entry without a headline, one without a date, one well-formed
Ragged ==
    [net |-> "ok",
     containers |-> <<[head |-> <<" ">>, date |-> <<"1", "0", ":", "0", "0">>],
                      [head |-> News(3), date |-> <<>>],
                      [head |-> News(4), date |-> <<"1", "1", ":", "3", "0">>]>>]

\* what the Nirmal Bang AJAX endpoints may answer, by name
PageResponse ==
    [TransportError |-> TransportError, NoContainers |-> NoContainers,
     TwoEntries |-> TwoEntries, Ragged |-> Ragged]

PageResponses == DOMAIN PageResponse

FetchOutcome == [r \in PageResponses |-> fetchNews(PageResponse[r])]

----------------------------------------------------------------------------
(* server.js: the /news handler *)

\* the freshness test inverted
WithinTTLInverted(t, fetched) == t - fetched > CACHE_TTL

\* server.js:50  the cached data is served without a fetch
WithinTTL(t, fetched) == t - fetched < CACHE_TTL

\* server.js:63-64  the two assignments, with no await between them, and who
\* made them
ReplaceCachedNews(r, general, derivative, t) ==
    [cachedNews |-> [general |-> general, derivative |-> derivative],
     lastFetched |-> t,
     cachedBy |-> [derivative |-> r, general |-> r, stamp |-> r]]

\* a catch block that marks the failed attempt as a refresh
KeepCachedNewsMarkFetched(r) ==
    [cachedNews |-> cachedNews, lastFetched |-> reqs[r].now, cachedBy |-> cachedBy]

\* server.js:71-74  the catch block assigns nothing: the cache as it is
KeepCachedNews(r) ==
    [cachedNews |-> cachedNews, lastFetched |-> lastFetched, cachedBy |-> cachedBy]

\* the cache as a handler finds it
CacheNow == [cachedNews |-> cachedNews, lastFetched |-> lastFetched, by |-> cachedBy.stamp]

\* server.js:47-61  a request arrives.  Within the TTL it is answered from the
\* cache; otherwise both fetches go out and the handler awaits them.
NewsRequest ==
    /\ profile = "server"
    /\ arrived < MaxRequests
    /\ arrived' = arrived + 1
    /\ IF WithinTTL(now, lastFetched)
       THEN /\ lastResp' = [id |-> arrived + 1, at |-> now, path |-> "cached",
                            body |-> cachedNews, fetches |-> 0,
                            before |-> [cachedNews |-> cachedNews, lastFetched |-> lastFetched],
                            pre |-> CacheNow,
                            after |-> [cachedNews |-> cachedNews, lastFetched |-> lastFetched]]
            /\ UNCHANGED reqs
       ELSE /\ reqs' = reqs @@ ((arrived + 1) :>
                           [now |-> now,
                            before |-> [cachedNews |-> cachedNews, lastFetched |-> lastFetched]])
            /\ UNCHANGED lastResp
    /\ UNCHANGED <<profile, now, cachedNews, lastFetched, cachedBy>>
    /\ UNCHANGED appVars
    /\ UNCHANGED sortVars

\* server.js:58-74  Promise.all settles: with both lists the cache is replaced
\* and sent; if either fetch failed the catch sends the cache as it is
NewsSettled(r) ==
    /\ profile = "server"
    /\ r \in DOMAIN reqs
    /\ \E g, d \in PageResponses :
          LET general == FetchOutcome[g]
              derivative == FetchOutcome[d]
              failed == general.threw \/ derivative.threw
              w == IF failed THEN KeepCachedNews(r)
                   ELSE ReplaceCachedNews(r, general.val, derivative.val, reqs[r].now)
          IN /\ cachedNews' = w.cachedNews
             /\ lastFetched' = w.lastFetched
             /\ cachedBy' = w.cachedBy
             /\ lastResp' = [id |-> r, at |-> reqs[r].now,
                             path |-> IF failed THEN "failed" ELSE "fresh",
                             body |-> w.cachedNews, fetches |-> 2,
                             before |-> reqs[r].before,
                             pre |-> CacheNow,
                             after |-> [cachedNews |-> w.cachedNews,
                                        lastFetched |-> w.lastFetched]]
    /\ reqs' = [k \in DOMAIN reqs \ {r} |-> reqs[k]]
    /\ UNCHANGED <<profile, now, arrived>>
    /\ UNCHANGED appVars
    /\ UNCHANGED sortVars

----------------------------------------------------------------------------
(* The clock *)

\* Date.now() is far more than one TTL past lastFetched's initial 0
BootTime == IF profile = "app" THEN 0 ELSE CACHE_TTL

ClockStep == (IF profile = "app" THEN INTERVAL ELSE CACHE_TTL) \div StepsPerPeriod

\* Time passes.  A due timer callback runs before the clock moves on.
Advance ==
    /\ profile = "app" => booted /\ now < nextTick
    /\ now + ClockStep <= BootTime + MaxSteps * ClockStep
    /\ now' = now + ClockStep
    /\ UNCHANGED <<profile, cachedBy>>
    /\ UNCHANGED appVars
    /\ UNCHANGED serverVars
    /\ UNCHANGED sortVars

----------------------------------------------------------------------------

\* app.js:17-21 and server.js:15-16  the variables of the modules once loaded
Loaded ==
    /\ cached = [derivative |-> <<>>, general |-> <<>>, lastUpdated |-> Null]
    /\ booted = FALSE
    /\ nextTick = 0
    /\ started = 0
    /\ cycles = <<>>
    /\ last = NoCycle
    /\ lastRead = NoRead
    /\ cachedNews = [general |-> <<>>, derivative |-> <<>>]
    /\ lastFetched = 0
    /\ arrived = 0
    /\ reqs = <<>>
    /\ lastResp = [id |-> 0]
    /\ cachedBy = [derivative |-> 0, general |-> 0, stamp |-> 0]

Init ==
    /\ profile \in {"app", "server"}
    /\ now = BootTime
    /\ Loaded
    /\ sortArg = <<>>
    /\ ordered = Null

Next ==
    \/ startNewsUpdater
    \/ IntervalTick
    \/ \E c \in DOMAIN cycles : DerivativeSettled(c)
    \/ \E c \in DOMAIN cycles : GeneralSettled(c)
    \/ \E c \in DOMAIN cycles : MarkupSettled(c)
    \/ getCachedNews
    \/ NewsRequest
    \/ \E r \in DOMAIN reqs : NewsSettled(r)
    \/ Advance

Spec == Init /\ [][Next]_vars

\* app.js with a client that changes the lists it was handed
InitCaller == Init /\ profile = "app"

NextCaller ==
    \/ startNewsUpdater
    \/ IntervalTick
    \/ \E c \in DOMAIN cycles : DerivativeSettled(c)
    \/ \E c \in DOMAIN cycles : GeneralSettled(c)
    \/ \E c \in DOMAIN cycles : MarkupSettled(c)
    \/ getCachedNews
    \/ CallerMutates
    \/ Advance

SpecCaller == InitCaller /\ [][NextCaller]_vars

----------------------------------------------------------------------------
(* The ordering step of refreshNewsNow on its own *)

\* app.js:104-108  the i-th record of a list, dated on day d, or with no raw
\* date when d = 0
SortRecord(i, d) ==
    LET dateVal == IF d = 0 THEN Null ELSE Num(d * MsPerDay) IN
    [headline |-> News(i), dateRaw |-> dateVal, date |-> formatDateToDDMMYYYY_HHMM(dateVal)]

\* the list whose i-th record is dated on day days[i], or undated
SortList(days) == [i \in 1..Len(days) |-> SortRecord(i, days[i])]

\* app.js:152  derivativeItems = sortByDateDesc(derivativeItems).slice(0, 4)
OrderAndCap ==
    /\ profile = "sort"
    /\ ordered = Null
    /\ \E s \in sortByDateDesc(sortArg) :
          ordered' = [sorted |-> s, capped |-> Slice(s, DerivativeCap)]
    /\ UNCHANGED <<profile, now, cachedBy, sortArg>>
    /\ UNCHANGED appVars
    /\ UNCHANGED serverVars

InitSort ==
    /\ profile = "sort"
    /\ now = 0
    /\ Loaded
    /\ \E n \in 0..MaxLen : \E days \in [1..n -> 0..MaxDay] : sortArg = SortList(days)
    /\ ordered = Null

NextSort == OrderAndCap

SpecSort == InitSort /\ [][NextSort]_vars

----------------------------------------------------------------------------
(* Vocabulary of the properties *)

\* the structured strategy fails on these sample responses: a transport error,
\* a body starting with "<", a body that is not JSON, a null list entry
StructuredFailures == {"TransportError", "HtmlPage", "NotJson", "NullEntry"}

\* the structured fetch itself fails on these (the last one fails in parsing)
FetchFailures == {"TransportError", "HtmlPage", "NotJson"}

\* a refreshNewsNow invocation has finished
Finished == last.id # 0

\* the general chain of the finished cycle ran out of strategies
GeneralExhausted ==
    /\ Finished
    /\ last.genResp \in StructuredFailures
    /\ fetchNirmalbangHeadlines(MarkupResponse[last.nbResp]) = <<>>

\* the array a structured document holds: itself, or under the first alias
\* that has a truthy value
RawList(v) ==
    LET list == FirstTruthy([i \in 1..Len(ListAliases) |-> OptGet(v, ListAliases[i])], v)
    IN IF list.t = "arr" THEN list.a ELSE <<>>

\* the fetch of sample r succeeds with a record whose headline is not empty
HasHeadlineRecord(r) ==
    /\ ~fetchAcesphere(StructuredResponse[r]).threw
    /\ LET list == RawList(StructuredResponse[r].json.val)
       IN \E i \in 1..Len(list) :
              list[i].t = "obj" /\ Len(NormalizeItem(list[i]).headline) > 0

\* the cached forms of a category result: ordered, capped, reduced to
\* { date, headline }
CachedForms(items, cap) == {Final(Slice(s, cap)) : s \in sortByDateDesc(items)}

\* the position a record takes when the list is sorted by date, latest
\* first, equal dates keeping their order
Rank(items, i) ==
    1 + Cardinality({j \in 1..Len(items) :
            \/ items[j].dateRaw.n > items[i].dateRaw.n
            \/ items[j].dateRaw.n = items[i].dateRaw.n /\ j < i})

SortedByDateDescending(items) ==
    [k \in 1..Len(items) |-> items[CHOOSE i \in 1..Len(items) : Rank(items, i) = k]]

\* every record carries a valid date
AllValidDates(items) ==
    \A i \in 1..Len(items) : items[i].dateRaw.t = "num" /\ items[i].dateRaw.n > 0

\* the first n records, as { date, headline }
Prefix(items, n) ==
    [i \in 1..(IF Len(items) < n THEN Len(items) ELSE n) |->
        [date |-> items[i].date, headline |-> items[i].headline]]

----------------------------------------------------------------------------
(* Properties *)

\* C1: at most one refresh cycle is in flight at any time, in app.js (the
\* startup call and the interval ticks) and in server.js (/news requests
\* arriving after the TTL has expired).
SingleRefreshInFlight ==
    /\ Cardinality(DOMAIN cycles) <= 1
    /\ Cardinality(DOMAIN reqs) <= 1

\* C2: after a refresh cycle of app.js in which the structured derivative
\* fetch, the structured general fetch and the markup fallback all failed,
\* the cache snapshot is the one from before the cycle started.
TotalFailureKeepsSnapshot ==
    ( /\ Finished
      /\ last.derResp \in FetchFailures
      /\ last.genResp \in FetchFailures
      /\ last.nbResp = "TransportError" )
    => cached = last.before

\* C3: in every reachable state, hence for every read in any interleaving,
\* the general list, the derivative list and the freshness timestamp of the
\* cache were written by one and the same refresh (or are all initial).
SnapshotFromOneRefresh ==
    /\ cachedBy.derivative = cachedBy.general
    /\ cachedBy.general = cachedBy.stamp

\* C3 witness: the second cycle has replaced the snapshot while the first
\* one is still waiting for an upstream, and a read has returned that snapshot
SnapshotFromOneRefreshWitness ==
    /\ cachedBy.general = 2
    /\ 1 \in DOMAIN cycles
    /\ "returned" \in DOMAIN lastRead
    /\ lastRead.returned = cached
    /\ cached.general # <<>>

\* C4: when the general chain exhausts its strategies, the derivative list of
\* the same cycle is what the derivative fetch alone produces, and is not
\* empty whenever that fetch succeeded with a record with a non-empty
\* headline; and a derivative failure does not change the general result.
CategoriesIsolated ==
    /\ GeneralExhausted =>
          /\ cached.derivative \in CachedForms(DerivativeOutcome[last.derResp], DerivativeCap)
          /\ HasHeadlineRecord(last.derResp) => cached.derivative # <<>>
    /\ (Finished /\ last.derResp \in StructuredFailures) =>
          cached.general \in CachedForms(
              IF last.genResp \in StructuredFailures
              THEN MarkupOutcome[last.nbResp]
              ELSE GeneralOutcome[last.genResp].val, GeneralCap)

\* C5: a /news request arriving less than CACHE_TTL after lastFetched is
\* answered with the cached snapshot as it stood, issues no upstream fetch and
\* leaves cachedNews and lastFetched as they were.
ServedFromCacheWithinTTL ==
    (lastResp.id # 0 /\ lastResp.at - lastResp.before.lastFetched < CACHE_TTL) =>
        /\ lastResp.path = "cached"
        /\ lastResp.fetches = 0
        /\ lastResp.body = lastResp.before.cachedNews
        /\ lastResp.after = lastResp.before

\* C5 witness: a request inside the TTL window has been answered from a cache
\* that an earlier request filled
ServedFromCacheWitness ==
    /\ lastResp.id # 0
    /\ lastResp.path = "cached"
    /\ lastResp.at > lastResp.before.lastFetched
    /\ lastResp.body.general # <<>>

\* C6: no read waits for an upstream fetch: no /news handler is ever suspended
\* on its fetches, and every answer given is the snapshot that was cached when
\* the request arrived.
ReadsNeverAwaitUpstream ==
    /\ DOMAIN reqs = {}
    /\ lastResp.id # 0 => lastResp.fetches = 0 /\ lastResp.body = lastResp.before.cachedNews

\* the list the markup strategy alone yields from sample r: its headlines in
\* upstream order, dates empty, at most n of them
MarkupAlone(r, n) ==
    LET nb == fetchNirmalbangHeadlines(MarkupResponse[r])
    IN [i \in 1..(IF Len(nb) < n THEN Len(nb) ELSE n) |->
           [date |-> <<>>, headline |-> nb[i].headline]]

\* C7: whenever the structured general strategy failed, the general list
\* cached by that cycle is what the markup fallback alone produces, capped at 6.
FallbackAloneDecides ==
    (Finished /\ last.genResp \in StructuredFailures) =>
        /\ last.nbResp \in MarkupResponses
        /\ cached.general = MarkupAlone(last.nbResp, 6)

\* C7 witness: normalizing threw on a null entry and the fallback's twelve
\* headlines were cut to six
FallbackAloneWitness ==
    /\ Finished
    /\ last.genResp = "NullEntry"
    /\ last.nbResp = "ManyAnchors"
    /\ Len(cached.general) = 6
    /\ cached.general[6].headline = News(6)

\* C8: the cached general list never holds more than 6 records and the cached
\* derivative list never more than 4; and when every record of a category
\* carries a valid date the cached list is the first 6 (resp. 4) records of
\* the full list sorted by date, latest first.
CapsAndDatePrefix ==
    /\ Len(cached.general) <= 6
    /\ Len(cached.derivative) <= 4
    /\ Finished =>
          LET der == DerivativeOutcome[last.derResp] IN
          AllValidDates(der) => cached.derivative = Prefix(SortedByDateDescending(der), 4)
    /\ (Finished /\ last.genResp \notin StructuredFailures) =>
          LET gen == GeneralOutcome[last.genResp].val IN
          AllValidDates(gen) => cached.general = Prefix(SortedByDateDescending(gen), 6)

\* C8 witness: both categories received eight dated records and were cut to
\* their caps, the latest record first
CapsAndDatePrefixWitness ==
    /\ Finished
    /\ last.derResp = "ManyDated"
    /\ last.genResp = "ManyDated"
    /\ Len(cached.derivative) = 4
    /\ Len(cached.general) = 6
    /\ cached.general[1].headline = News(4)
    /\ cached.general[6].headline = News(1)

\* C9: no failure escapes a refresh cycle: a category whose every strategy
\* failed is an empty list for that cycle, whatever the combination of
\* failures, and the interval timer still starts the next cycle when due.
FailuresContained ==
    /\ (Finished /\ last.derResp \in StructuredFailures) => cached.derivative = <<>>
    /\ (Finished /\ last.genResp \in StructuredFailures /\ last.nbResp = "TransportError") =>
          cached.general = <<>>
    /\ (booted /\ now >= nextTick) => ENABLED IntervalTick

\* C9 witness: a second cycle has finished after a first one that failed on
\* every strategy, itself having met a null entry and a failing fallback
FailuresContainedWitness ==
    /\ Finished
    /\ last.id = 2
    /\ last.before.lastUpdated # Null
    /\ last.before.general = <<>>
    /\ last.before.derivative = <<>>
    /\ last.derResp = "NullEntry"
    /\ last.genResp = "HtmlPage"
    /\ last.nbResp = "TransportError"

\* the requests one refreshNewsNow invocation has issued so far
RequestsWithinBounds(q, genResp) ==
    /\ q.general <= 1
    /\ q.markup <= 1
    /\ genResp = "HtmlPage" => q.general = 1 /\ q.markup = 1
    /\ q.markup > 0 => genResp \in StructuredFailures

\* C10: within one cycle, a structured general body starting with "<" is
\* followed by exactly one call of the markup fetcher and no second request to
\* the structured general endpoint; the markup fetcher is contacted only in
\* cycles whose structured general strategy failed.
FallbackOnceOnlyOnFailure ==
    /\ Finished => RequestsWithinBounds(last.requests, last.genResp)
    /\ \A c \in DOMAIN cycles : RequestsWithinBounds(cycles[c].requests, cycles[c].genResp)

\* C10 witness: a cycle that received markup from the structured general
\* endpoint has finished through the fallback
FallbackOnceWitness ==
    /\ Finished
    /\ last.genResp = "HtmlPage"
    /\ last.nbResp = "FewAnchors"
    /\ last.requests = [derivative |-> 1, general |-> 1, markup |-> 1]
    /\ Len(cached.general) = 2

\* the records of a list all have a headline that is not empty after trimming
HeadlinesPresent(list) == \A i \in 1..Len(list) : Trim(list[i].headline) # <<>>

\* C11: every record of every snapshot the cache holds or a client was given
\* has a headline that is not empty after trimming, in app.js (cached, what
\* getCachedNews returned) and in server.js (cachedNews, the body of a
\* /news answer).
HeadlinesNeverEmpty ==
    /\ HeadlinesPresent(cached.general)
    /\ HeadlinesPresent(cached.derivative)
    /\ "returned" \in DOMAIN lastRead =>
          /\ HeadlinesPresent(lastRead.returned.general)
          /\ HeadlinesPresent(lastRead.returned.derivative)
    /\ HeadlinesPresent(cachedNews.general)
    /\ HeadlinesPresent(cachedNews.derivative)
    /\ lastResp.id # 0 =>
          /\ HeadlinesPresent(lastResp.body.general)
          /\ HeadlinesPresent(lastResp.body.derivative)

\* C11 witness: both categories received the document whose four records
\* include one with a blank and one with an empty first headline field; three
\* records were cached and a read has returned them
HeadlinesNeverEmptyWitness ==
    /\ Finished
    /\ last.derResp = "Mixed"
    /\ last.genResp = "Mixed"
    /\ Len(cached.general) = 3
    /\ Len(cached.derivative) = 3
    /\ "returned" \in DOMAIN lastRead
    /\ lastRead.returned.general = cached.general

\* C12: startNewsUpdater starts one cycle at once and the timer one more at
\* every 30-minute tick, whatever the clients do: in every state, also after
\* any number of getCachedNews calls, the number of cycles started so far is
\* one plus the number of whole intervals elapsed (less the tick that is due
\* and has not run yet), and only started cycles are in flight.
SchedulerIndependentOfReads ==
    /\ ~booted => started = 0 /\ DOMAIN cycles = {}
    /\ booted =>
          /\ nextTick = started * INTERVAL
          /\ started = (IF now >= nextTick THEN 0 ELSE 1) + now \div INTERVAL
          /\ DOMAIN cycles \subseteq 1..started

\* C12 witness: one interval has passed, the tick has started the second
\* cycle, and a client has read the snapshot the first cycle left
SchedulerWitness ==
    /\ booted
    /\ now = INTERVAL
    /\ started = 2
    /\ 2 \in DOMAIN cycles
    /\ "returned" \in DOMAIN lastRead
    /\ lastRead.by.stamp = 1

\* C13: a getCachedNews call made after an earlier one, with no refresh cycle
\* completing in between, returns the same general list, derivative list and
\* lastUpdated as the earlier one; and a read leaves the cache as it was:
\* until a cycle completes, the cache is what the read returned.
ReadsIdempotent ==
    "returned" \in DOMAIN lastRead =>
        /\ lastRead.prev # Null => lastRead.returned = lastRead.prev
        /\ cached = lastRead.returned

\* C13 witness: two reads in a row of the snapshot the first cycle wrote, six
\* general records in it
ReadsIdempotentWitness ==
    /\ "returned" \in DOMAIN lastRead
    /\ lastRead.prev # Null
    /\ lastRead.by.stamp = 1
    /\ Len(lastRead.returned.general) = 6
    /\ lastRead.returned.lastUpdated # Null

\* C14: what getCachedNews returns is a copy: a client changing a list it was
\* handed (removing an element) leaves the cache, and so what a later
\* getCachedNews call returns, as it was.
ReturnedSnapshotIsCopy == [][CallerMutates => cached' = cached]_vars

\* the place of record r in the list given
PlaceIn(list, r) == CHOOSE k \in 1..Len(list) : list[k] = r

\* C15: for a list whose raw dates are all valid or absent, sortByDateDesc
\* returns a permutation of it: every dated record before every undated one,
\* the dated ones latest first, the undated ones in the order they came in;
\* and the cap keeps the first records of that ordered list.
OrderingStepCorrect ==
    (profile = "sort" /\ ordered # Null) =>
        LET s == ordered.sorted IN
        /\ Len(s) = Len(sortArg)
        /\ {s[i] : i \in 1..Len(s)} = {sortArg[i] : i \in 1..Len(sortArg)}
        /\ \A i, j \in 1..Len(s) :
              i < j =>
                 /\ HasDate(s[j]) => HasDate(s[i])
                 /\ (HasDate(s[i]) /\ HasDate(s[j])) => s[i].dateRaw.n >= s[j].dateRaw.n
                 /\ (~HasDate(s[i]) /\ ~HasDate(s[j])) => PlaceIn(sortArg, s[i]) < PlaceIn(sortArg, s[j])
        /\ Len(ordered.capped) = (IF Len(s) < 4 THEN Len(s) ELSE 4)
        /\ \A i \in 1..Len(ordered.capped) : ordered.capped[i] = s[i]

\* C15 witness: five records, the first and the third undated, the second
\* and the fifth on the same day, the fourth later: ordered 4, 2, 5, 1, 3 and
\* cut to four
OrderingStepWitness ==
    /\ profile = "sort"
    /\ ordered # Null
    /\ Len(sortArg) = 5
    /\ [i \in 1..5 |-> ordered.sorted[i].headline] = <<News(4), News(2), News(5), News(1), News(3)>>
    /\ ordered.sorted[2].dateRaw = ordered.sorted[3].dateRaw
    /\ Len(ordered.capped) = 4

\* C16: an upstream call that never returns does not stop refreshing.  In
\* app.js every tick that is due can run and every tick so far has started a
\* cycle, whatever the cycles in flight are doing; in server.js a request can
\* always arrive, each waiting handler can settle on its own, and while a
\* handler waits and no other has refreshed the cache a new request fetches
\* too.
RefreshNeverWedged ==
    /\ (booted /\ now >= nextTick) => ENABLED IntervalTick
    /\ booted => nextTick = started * INTERVAL
    /\ (profile = "server" /\ arrived < MaxRequests) => ENABLED NewsRequest
    /\ \A r \in DOMAIN reqs :
          /\ ENABLED NewsSettled(r)
          /\ lastFetched = reqs[r].before.lastFetched => ~WithinTTL(now, lastFetched)

\* C16 witness: the first cycle is still waiting for its first answer one
\* interval after startup, and the cycle the tick started has completed and
\* filled the cache
RefreshNeverWedgedWitness ==
    /\ 1 \in DOMAIN cycles
    /\ cycles[1].pc = "derivative"
    /\ now >= INTERVAL
    /\ Finished
    /\ last.id = 2
    /\ cachedBy.stamp = 2
    /\ cached.derivative # <<>>
    /\ cached.general # <<>>

\* C17: the cache of app.js starts with two empty lists and lastUpdated null
\* and stays so until the first cycle reaches its cache write; from then on
\* lastUpdated is not null: it is the time at which the latest cycle to
\* complete wrote the cache, whether or not any of its fetches succeeded.
LastUpdatedLifecycle ==
    /\ ~Finished =>
          cached = [derivative |-> <<>>, general |-> <<>>, lastUpdated |-> Null]
    /\ Finished =>
          /\ cached.lastUpdated # Null
          /\ cached.lastUpdated = Str(toISOString(last.at))
          /\ cachedBy.stamp = last.id

\* C17 witness: the second cycle, every fetch of which failed, has completed
\* one interval after the first and has set lastUpdated anew
LastUpdatedWitness ==
    /\ Finished
    /\ last.id = 2
    /\ last.derResp = "TransportError"
    /\ last.genResp = "NotJson"
    /\ last.nbResp = "TransportError"
    /\ last.before.lastUpdated = Str(toISOString(0))
    /\ cached.lastUpdated = Str(toISOString(INTERVAL))

NewestRefreshWins ==
    (lastResp.id # 0 /\ lastResp.path = "fresh") =>
        /\ lastResp.after.lastFetched >= lastResp.pre.lastFetched
        /\ lastResp.id >= lastResp.pre.by

====
